---- MODULE Spec2Model ----
(***************************************************************************)
(* Model of boxing_timer.py: a command-line round timer.                   *)
(*                                                                         *)
(* The process is one thread of control.  pc is its position, trace is the *)
(* ordered log of its effects on the outside world (writes to standard     *)
(* output and completed one-second sleeps), stderr and exit_status are the *)
(* rest of what the process leaves behind.  KeyboardInterrupt is the only  *)
(* asynchronous input; it is modelled where run_timer's try block can      *)
(* receive it.                                                             *)
(***************************************************************************)
EXTENDS Integers, Sequences, FiniteSets, TLC

VARIABLES
    argv,         \* the parsed command-line values handed to parse_args
    pc,           \* position of the single thread of control
    config,       \* the TimerConfig returned by parse_args
    gen,          \* the suspended frame of the _round_intervals generator
    label,        \* _countdown's parameter label
    seconds,      \* _countdown's parameter seconds
    bell,         \* _countdown's parameter bell
    remaining,    \* _countdown's loop variable
    trace,        \* effects in order: stdout writes and finished sleeps
    stderr,       \* messages written to the error stream
    exit_status,  \* <<>> while the process runs, <<status>> once it exited
    interrupted,  \* a KeyboardInterrupt was raised inside the try block
    emitted,      \* history: the intervals the generator has yielded
    completed     \* history: the number of _countdown calls that returned

vars == <<argv, pc, config, gen, label, seconds, bell, remaining, trace,
          stderr, exit_status, interrupted, emitted, completed>>

-----------------------------------------------------------------------------
(* Bounds of the model.                                                    *)

MaxRounds == 3
MaxSeconds == 2
MaxProducerSeconds == 5
MaxCountdown == 126

-----------------------------------------------------------------------------
(* Data.                                                                   *)

TimerConfig(r, rs, re, w, b) ==
    [rounds |-> r, round_seconds |-> rs, rest_seconds |-> re,
     warmup_seconds |-> w, bell |-> b]

\* The value of config before parse_args has returned one.
NoConfig == TimerConfig(0, 0, 0, 0, FALSE)

Interval(l, s) == [label |-> l, seconds |-> s]

\* The generator object before it exists, and its frame once created.
NoGen == [pc |-> "none", round_number |-> 0]
NewGen == [pc |-> "start", round_number |-> 0]

\* One element of trace.  A status element stands for the single write of
\* "\r{label}: {time}   " followed by its flush.
Tok(k, l, t) == [kind |-> k, label |-> l, time |-> t]
NL == Tok("nl", "", <<>>)
BEL == Tok("bell", "", <<>>)
STOPPED == Tok("stopped", "Timer stopped.", <<>>)
SLEPT == Tok("sleep", "", <<>>)

-----------------------------------------------------------------------------
(* _format_time                                                            *)

DigitChar(d) == <<"0", "1", "2", "3", "4", "5", "6", "7", "8", "9">>[d + 1]

RECURSIVE Digits(_)
Digits(n) ==
    IF n < 10 THEN <<DigitChar(n)>>
    ELSE Digits(n \div 10) \o <<DigitChar(n % 10)>>

\* Mutant of Pad2: the width of the format spec is lost ("{n:d}").
Pad2_NoFill(n) == Digits(n)

\* The format spec 02d for n >= 0: decimal digits, zero-filled to width 2.
Pad2(n) == IF Len(Digits(n)) < 2 THEN <<"0">> \o Digits(n) ELSE Digits(n)

FormatTime(s) ==
    LET minutes == s \div 60
        secs == s % 60
    IN  Pad2(minutes) \o <<":">> \o Pad2(secs)

-----------------------------------------------------------------------------
(* _round_intervals: one next() on the generator.                          *)

\* Mutant of RoundLabel: the two numbers of the label are exchanged.
RoundLabel_Swapped(i, n) == "Round " \o ToString(n) \o "/" \o ToString(i)

RoundLabel(i, n) == "Round " \o ToString(i) \o "/" \o ToString(n)

Yield(v, g) == [done |-> FALSE, value |-> v, gen |-> g]
Exhausted(g) ==
    [done |-> TRUE, value |-> Interval("", 0),
     gen |-> [pc |-> "done", round_number |-> g.round_number]]

\* Mutant of RoundLoop: a round of zero seconds is skipped, not yielded.
RoundLoop_SkipZero(cfg, g, r) ==
    IF r < cfg.rounds + 1 /\ cfg.round_seconds # 0
    THEN Yield(Interval("Round " \o ToString(r) \o "/"
                            \o ToString(cfg.rounds), cfg.round_seconds),
               [pc |-> "round", round_number |-> r])
    ELSE Exhausted(g)

\* The head of "for round_number in range(1, config.rounds + 1)" taking r.
RoundLoop(cfg, g, r) ==
    IF r < cfg.rounds + 1
    THEN Yield(Interval(RoundLabel(r, cfg.rounds), cfg.round_seconds),
               [pc |-> "round", round_number |-> r])
    ELSE Exhausted(g)

\* Mutant of AfterRound: the test for the last round is missing, so a Rest
\* follows every round.
AfterRound_TrailingRest(cfg, g) ==
    IF cfg.rest_seconds # 0
    THEN Yield(Interval("Rest", cfg.rest_seconds),
               [pc |-> "rest", round_number |-> g.round_number])
    ELSE RoundLoop(cfg, g, g.round_number + 1)

\* Resuming after "yield Round ...": the rest test of line 51.
AfterRound(cfg, g) ==
    IF g.round_number # cfg.rounds /\ cfg.rest_seconds # 0
    THEN Yield(Interval("Rest", cfg.rest_seconds),
               [pc |-> "rest", round_number |-> g.round_number])
    ELSE RoundLoop(cfg, g, g.round_number + 1)

GenNext(cfg, g) ==
    CASE g.pc = "start" ->
            IF cfg.warmup_seconds # 0
            THEN Yield(Interval("Warmup", cfg.warmup_seconds),
                       [pc |-> "warmup", round_number |-> 0])
            ELSE RoundLoop(cfg, g, 1)
      [] g.pc = "warmup" -> RoundLoop(cfg, g, 1)
      [] g.pc = "round" -> AfterRound(cfg, g)
      [] g.pc = "rest" -> RoundLoop(cfg, g, g.round_number + 1)
      [] OTHER -> Exhausted(g)

-----------------------------------------------------------------------------
(* parse_args                                                              *)

IntInputs(max) == -1 .. max

Argvs ==
    [rounds : IntInputs(MaxRounds), round_seconds : IntInputs(MaxSeconds),
     rest_seconds : IntInputs(MaxSeconds),
     warmup_seconds : IntInputs(MaxSeconds), no_bell : BOOLEAN]

\* Mutant of ParseError: the loop of line 102 leaves out warmup_seconds.
ParseError_SkipsWarmup(args) ==
    IF args.rounds < 1 THEN "--rounds must be at least 1"
    ELSE IF args.round_seconds < 0 THEN "--round-seconds cannot be negative"
    ELSE IF args.rest_seconds < 0 THEN "--rest-seconds cannot be negative"
    ELSE ""

\* The first parser.error the checks of lines 100-105 reach, "" if none.
ParseError(args) ==
    IF args.rounds < 1 THEN "--rounds must be at least 1"
    ELSE IF args.round_seconds < 0 THEN "--round-seconds cannot be negative"
    ELSE IF args.rest_seconds < 0 THEN "--rest-seconds cannot be negative"
    ELSE IF args.warmup_seconds < 0 THEN "--warmup-seconds cannot be negative"
    ELSE ""

ParsedConfig(args) ==
    TimerConfig(args.rounds, args.round_seconds, args.rest_seconds,
                args.warmup_seconds, ~args.no_bell)

-----------------------------------------------------------------------------
(* The process.                                                            *)

Init ==
    /\ argv \in Argvs
    /\ pc = "main"
    /\ config = NoConfig
    /\ gen = NoGen
    /\ label = ""
    /\ seconds = 0
    /\ bell = FALSE
    /\ remaining = 0
    /\ trace = <<>>
    /\ stderr = <<>>
    /\ exit_status = <<>>
    /\ interrupted = FALSE
    /\ emitted = <<>>
    /\ completed = 0

\* main, line 116, when parse_args calls parser.error: the message goes to
\* the error stream and the process exits with status 2.
ParseArgsError ==
    /\ pc = "main"
    /\ ParseError(argv) # ""
    /\ stderr' = Append(stderr, ParseError(argv))
    /\ exit_status' = <<2>>
    /\ pc' = "exited"
    /\ UNCHANGED <<argv, config, gen, label, seconds, bell, remaining, trace,
                   interrupted, emitted, completed>>

\* main, line 116, when parse_args returns a TimerConfig.
ParseArgsOk ==
    /\ pc = "main"
    /\ ParseError(argv) = ""
    /\ config' = ParsedConfig(argv)
    /\ pc' = "run_timer"
    /\ UNCHANGED <<argv, gen, label, seconds, bell, remaining, trace, stderr,
                   exit_status, interrupted, emitted, completed>>

\* main, line 117, to run_timer's line 57: the try block is entered and the
\* generator object is created (no code of it runs yet).
RunTimerEnter ==
    /\ pc = "run_timer"
    /\ gen' = NewGen
    /\ pc' = "for"
    /\ UNCHANGED <<argv, config, label, seconds, bell, remaining, trace,
                   stderr, exit_status, interrupted, emitted, completed>>

\* The first value of range(seconds, -1, -1), or the loop's end.
CountdownStart(s) == IF s > -1 THEN "write" ELSE "newline"

\* run_timer, line 57-58: next() on the generator; either the loop ends and
\* the try block is left, or _countdown is called with the yielded interval.
ForNext ==
    /\ pc = "for"
    /\ LET r == GenNext(config, gen) IN
        /\ gen' = r.gen
        /\ IF r.done
           THEN /\ pc' = "return"
                /\ UNCHANGED <<label, seconds, bell, remaining, emitted>>
           ELSE /\ emitted' = Append(emitted, r.value)
                /\ label' = r.value.label
                /\ seconds' = r.value.seconds
                /\ bell' = config.bell
                /\ remaining' = r.value.seconds
                /\ pc' = CountdownStart(r.value.seconds)
    /\ UNCHANGED <<argv, config, trace, stderr, exit_status, interrupted,
                   completed>>

\* Mutant of NextIteration: the range stops before 0 (range(seconds, 0, -1)).
NextIteration_StopsAtOne(r) ==
    IF r - 1 > 0
    THEN /\ remaining' = r - 1
         /\ pc' = "write"
    ELSE /\ remaining' = r
         /\ pc' = "newline"

\* The step of range(seconds, -1, -1) after the value r.
NextIteration(r) ==
    IF r - 1 > -1
    THEN /\ remaining' = r - 1
         /\ pc' = "write"
    ELSE /\ remaining' = r
         /\ pc' = "newline"

\* _countdown, lines 38-40: the status line is written and flushed; with
\* remaining = 0 the loop goes on without sleeping.
Write ==
    /\ pc = "write"
    /\ trace' = Append(trace, Tok("status", label, FormatTime(remaining)))
    /\ IF remaining > 0
       THEN /\ pc' = "sleep"
            /\ UNCHANGED remaining
       ELSE NextIteration(remaining)
    /\ UNCHANGED <<argv, config, gen, label, seconds, bell, stderr,
                   exit_status, interrupted, emitted, completed>>

\* _countdown, line 41: time.sleep(1) returns.
Sleep ==
    /\ pc = "sleep"
    /\ trace' = Append(trace, SLEPT)
    /\ NextIteration(remaining)
    /\ UNCHANGED <<argv, config, gen, label, seconds, bell, stderr,
                   exit_status, interrupted, emitted, completed>>

\* _countdown, line 42.
Newline ==
    /\ pc = "newline"
    /\ trace' = Append(trace, NL)
    /\ pc' = "bell"
    /\ UNCHANGED <<argv, config, gen, label, seconds, bell, remaining, stderr,
                   exit_status, interrupted, emitted, completed>>

\* Mutant of PlayBell: the bell rings whether enabled or not.
PlayBell_Always(enabled) == <<BEL>>

\* What _play_bell(enabled) writes.
PlayBell(enabled) == IF enabled THEN <<BEL>> ELSE <<>>

\* _countdown, line 43: _play_bell, then _countdown returns to the for loop.
Bell ==
    /\ pc = "bell"
    /\ trace' = trace \o PlayBell(bell)
    /\ completed' = completed + 1
    /\ pc' = "for"
    /\ UNCHANGED <<argv, config, gen, label, seconds, bell, remaining, stderr,
                   exit_status, interrupted, emitted>>

\* The positions inside run_timer's try block (lines 57-58 and all they call).
TryPcs == {"for", "write", "sleep", "newline", "bell"}

\* KeyboardInterrupt raised inside the try block: whatever statement was
\* about to run (or the sleep in progress) is abandoned for the handler.
Interrupt ==
    /\ pc \in TryPcs
    /\ interrupted' = TRUE
    /\ pc' = "except"
    /\ UNCHANGED <<argv, config, gen, label, seconds, bell, remaining, trace,
                   stderr, exit_status, emitted, completed>>

\* Mutant of StoppedNotice: the notice without its leading newline.
StoppedNotice_NoLeadingNewline == <<STOPPED, NL>>

\* What the handler of line 60 writes: "\nTimer stopped.\n".
StoppedNotice == <<NL, STOPPED, NL>>

\* Mutant of Except: the handler sits inside the for loop, which goes on with
\* the next interval after the notice.
Except_Resumes ==
    /\ pc = "except"
    /\ trace' = trace \o <<NL, STOPPED, NL>>
    /\ pc' = "for"
    /\ UNCHANGED <<argv, config, gen, label, seconds, bell, remaining, stderr,
                   exit_status, interrupted, emitted, completed>>

\* run_timer, lines 59-60.
Except ==
    /\ pc = "except"
    /\ trace' = trace \o StoppedNotice
    /\ pc' = "return"
    /\ UNCHANGED <<argv, config, gen, label, seconds, bell, remaining, stderr,
                   exit_status, interrupted, emitted, completed>>

\* Mutant of Return: a cancelled session exits with status 1.
Return_ErrorOnCancel ==
    /\ pc = "return"
    /\ exit_status' = IF interrupted THEN <<1>> ELSE <<0>>
    /\ pc' = "exited"
    /\ UNCHANGED <<argv, config, gen, label, seconds, bell, remaining, trace,
                   stderr, interrupted, emitted, completed>>

\* main, line 118, and line 122: SystemExit with main's return value.
Return ==
    /\ pc = "return"
    /\ exit_status' = <<0>>
    /\ pc' = "exited"
    /\ UNCHANGED <<argv, config, gen, label, seconds, bell, remaining, trace,
                   stderr, interrupted, emitted, completed>>

\* The steps the program takes by itself.
Step ==
    \/ ParseArgsError
    \/ ParseArgsOk
    \/ RunTimerEnter
    \/ ForNext
    \/ Write
    \/ Sleep
    \/ Newline
    \/ Bell
    \/ Except
    \/ Return

Next ==
    \/ Step
    \/ Interrupt

Spec == Init /\ [][Next]_vars

\* The program is one running thread: while a step is possible it is taken
\* (time.sleep(1) returns).
FairSpec == Spec /\ WF_vars(Step)

-----------------------------------------------------------------------------
(* The producer alone: list(_round_intervals(config)) for a validated      *)
(* configuration, one next() per step.                                     *)

ProducerConfigs ==
    {TimerConfig(r, rs, re, w, b) :
        r \in 1 .. MaxRounds, rs \in 0 .. MaxProducerSeconds,
        re \in 0 .. MaxProducerSeconds, w \in 0 .. MaxProducerSeconds,
        b \in BOOLEAN}

ArgsOf(cfg) ==
    [rounds |-> cfg.rounds, round_seconds |-> cfg.round_seconds,
     rest_seconds |-> cfg.rest_seconds,
     warmup_seconds |-> cfg.warmup_seconds, no_bell |-> ~cfg.bell]

ProducerInit ==
    /\ config \in ProducerConfigs
    /\ argv = ArgsOf(config)
    /\ pc = "list"
    /\ gen = NewGen
    /\ label = ""
    /\ seconds = 0
    /\ bell = FALSE
    /\ remaining = 0
    /\ trace = <<>>
    /\ stderr = <<>>
    /\ exit_status = <<>>
    /\ interrupted = FALSE
    /\ emitted = <<>>
    /\ completed = 0

ProducerNext ==
    /\ pc = "list"
    /\ gen.pc # "done"
    /\ LET r == GenNext(config, gen) IN
        /\ gen' = r.gen
        /\ emitted' = IF r.done THEN emitted ELSE Append(emitted, r.value)
    /\ UNCHANGED <<argv, pc, config, label, seconds, bell, remaining, trace,
                   stderr, exit_status, interrupted, completed>>

ProducerSpec == ProducerInit /\ [][ProducerNext]_vars

-----------------------------------------------------------------------------
(* The renderer alone: one call _countdown(l, D, b) that no interrupt      *)
(* reaches, up to its return.                                              *)

CountdownLabels == {"Warmup"}

CountdownInit ==
    /\ label \in CountdownLabels
    /\ seconds \in 0 .. MaxCountdown
    /\ bell \in BOOLEAN
    /\ remaining = seconds
    /\ pc = CountdownStart(seconds)
    /\ argv = ArgsOf(NoConfig)
    /\ config = NoConfig
    /\ gen = NoGen
    /\ trace = <<>>
    /\ stderr = <<>>
    /\ exit_status = <<>>
    /\ interrupted = FALSE
    /\ emitted = <<>>
    /\ completed = 0

CountdownNext ==
    \/ Write
    \/ Sleep
    \/ Newline
    \/ Bell

CountdownSpec == CountdownInit /\ [][CountdownNext]_vars

-----------------------------------------------------------------------------
(* Reading the output back.                                                *)

\* The digit a character shows.
DigitVal(c) == CHOOSE d \in 0 .. 9 : ToString(d) = c

IsDigit(c) == \E d \in 0 .. 9 : ToString(d) = c

RECURSIVE NumVal(_)
NumVal(cs) ==
    IF cs = <<>> THEN 0
    ELSE 10 * NumVal(SubSeq(cs, 1, Len(cs) - 1)) + DigitVal(cs[Len(cs)])

\* The two fields of a displayed time "M..M:SS".
MinutesField(t) == SubSeq(t, 1, Len(t) - 3)
SecondsField(t) == SubSeq(t, Len(t) - 1, Len(t))

\* The number of seconds a displayed time stands for.
ShownSeconds(t) == 60 * NumVal(MinutesField(t)) + NumVal(SecondsField(t))

\* What reached standard output, in order.
Stdout == SelectSeq(trace, LAMBDA t : t.kind # "sleep")

Count(seq, k) == Cardinality({i \in 1 .. Len(seq) : seq[i].kind = k})

-----------------------------------------------------------------------------
(* C1 - C3: the interval sequence producer.                                *)

ExpectedCount(cfg) ==
    (IF cfg.warmup_seconds > 0 THEN 1 ELSE 0) + cfg.rounds
        + (IF cfg.rest_seconds > 0 THEN cfg.rounds - 1 ELSE 0)

\* C1: for every valid configuration the producer emits exactly
\* (1 if warmup_seconds > 0 else 0) + rounds + (rounds - 1 if rest_seconds > 0
\* else 0) intervals: never more while it runs, exactly that many once it is
\* exhausted.
C1_IntervalCount ==
    /\ Len(emitted) <= ExpectedCount(config)
    /\ gen.pc = "done" => Len(emitted) = ExpectedCount(config)

C1_Witness ==
    /\ gen.pc = "done"
    /\ config.rounds = 3
    /\ config.warmup_seconds > 0
    /\ config.rest_seconds > 0
    /\ Len(emitted) = 6

\* The sequence section 4.1 prescribes, built round by round.
RECURSIVE RoundsFrom(_, _)
RoundsFrom(cfg, i) ==
    IF i > cfg.rounds THEN <<>>
    ELSE <<Interval("Round " \o ToString(i) \o "/" \o ToString(cfg.rounds),
                    cfg.round_seconds)>>
         \o (IF i < cfg.rounds /\ cfg.rest_seconds > 0
             THEN <<Interval("Rest", cfg.rest_seconds)>>
             ELSE <<>>)
         \o RoundsFrom(cfg, i + 1)

ExpectedSequence(cfg) ==
    (IF cfg.warmup_seconds > 0
     THEN <<Interval("Warmup", cfg.warmup_seconds)>>
     ELSE <<>>) \o RoundsFrom(cfg, 1)

ExampleConfig == TimerConfig(2, 5, 3, 2, TRUE)

\* C2: the producer emits Warmup first iff warmup_seconds > 0, then the rounds
\* "Round i/rounds" for i = 1..rounds in ascending order, with a Rest directly
\* after round i iff i < rounds and rest_seconds > 0; what it has emitted so
\* far is always a prefix of that sequence, the exhausted producer has emitted
\* all of it, and its last interval is the last round, never a Rest.  The
\* configuration rounds=2, round_seconds=5, rest_seconds=3, warmup_seconds=2
\* yields Warmup 2, Round 1/2 5, Rest 3, Round 2/2 5.
C2_IntervalOrder ==
    /\ Len(emitted) <= Len(ExpectedSequence(config))
    /\ emitted = SubSeq(ExpectedSequence(config), 1, Len(emitted))
    /\ gen.pc = "done" =>
        /\ emitted = ExpectedSequence(config)
        /\ emitted[Len(emitted)].label
              = "Round " \o ToString(config.rounds) \o "/"
                    \o ToString(config.rounds)
        /\ emitted[Len(emitted)].label # "Rest"
    /\ (gen.pc = "done" /\ config = ExampleConfig) =>
        emitted = <<Interval("Warmup", 2), Interval("Round 1/2", 5),
                    Interval("Rest", 3), Interval("Round 2/2", 5)>>

C2_Witness ==
    /\ gen.pc = "done"
    /\ config = ExampleConfig
    /\ Len(emitted) = 4

RoundIndexes(seq) ==
    {i \in 1 .. Len(seq) : seq[i].label \notin {"Warmup", "Rest"}}

\* C3: zero-duration intervals are still emitted: with round_seconds = 0 the
\* exhausted producer has emitted all `rounds` round intervals, each of
\* duration 0, and rounds=1 with all durations 0 yields exactly the one
\* interval ("Round 1/1", 0).
C3_ZeroDurationEmitted ==
    /\ (gen.pc = "done" /\ config.round_seconds = 0) =>
        /\ Cardinality(RoundIndexes(emitted)) = config.rounds
        /\ \A i \in RoundIndexes(emitted) : emitted[i].seconds = 0
    /\ (gen.pc = "done" /\ config.rounds = 1 /\ config.round_seconds = 0
            /\ config.rest_seconds = 0 /\ config.warmup_seconds = 0) =>
        emitted = <<Interval("Round 1/1", 0)>>

C3_Witness ==
    /\ gen.pc = "done"
    /\ config.rounds = 1
    /\ config.round_seconds = 0
    /\ config.rest_seconds = 0
    /\ config.warmup_seconds = 0
    /\ emitted = <<Interval("Round 1/1", 0)>>

-----------------------------------------------------------------------------
(* C4, C9: the countdown renderer and the time format.                     *)

\* The i-th effect of an uninterrupted countdown from D: updates showing
\* D, D-1, ..., 0 at the odd places up to 2D+1, a sleep between each two.
CountdownPlace(i, D, t) ==
    IF i % 2 = 1
    THEN /\ t.kind = "status"
         /\ t.label = label
         /\ ShownSeconds(t.time) = D - (i - 1) \div 2
    ELSE t = SLEPT

\* C4: an uninterrupted _countdown(label, D, bell) emits exactly D + 1 status
\* updates showing D, D-1, ..., 0 in strictly decreasing order and sleeps
\* exactly D times, once after each update with remaining > 0 and not after
\* the update showing 0; for D = 0 that is one update (00:00) and no sleep.
C4_CountdownTicks ==
    /\ \A i \in 1 .. Len(trace) :
          i <= 2 * seconds + 1 => CountdownPlace(i, seconds, trace[i])
    /\ Count(trace, "status") <= seconds + 1
    /\ Count(trace, "sleep") <= seconds
    /\ pc \in {"newline", "bell", "for"} =>
        /\ Count(trace, "status") = seconds + 1
        /\ Count(trace, "sleep") = seconds
        /\ trace[2 * seconds + 1].time = <<"0", "0", ":", "0", "0">>
    /\ (pc \in {"newline", "bell", "for"} /\ seconds = 0) =>
        /\ trace[1] = Tok("status", label, <<"0", "0", ":", "0", "0">>)
        /\ Count(trace, "sleep") = 0

C4_Witness ==
    /\ pc = "for"
    /\ completed = 1
    /\ seconds = 3
    /\ Count(trace, "status") = 4
    /\ Count(trace, "sleep") = 3

\* The displayed time t is s seconds as minutes:seconds: digits, a colon,
\* two seconds digits in 00..59, at least two minutes digits and no more
\* than the minutes need.
FormatOK(s, t) ==
    /\ Len(t) >= 5
    /\ t[Len(t) - 2] = ":"
    /\ \A i \in 1 .. Len(t) : i # Len(t) - 2 => IsDigit(t[i])
    /\ NumVal(SecondsField(t)) \in 0 .. 59
    /\ NumVal(SecondsField(t)) = s % 60
    /\ NumVal(MinutesField(t)) = s \div 60
    /\ Len(MinutesField(t)) = 2 \/ MinutesField(t)[1] # "0"

\* The status update just written, which shows `remaining`.
JustWritten == pc \in {"sleep", "newline"} /\ trace # <<>>

\* C9: _format_time(s) for s >= 0 is the minutes s div 60 and the seconds
\* s mod 60, colon-separated, each zero-padded to two digits, the seconds in
\* 00..59; 0 -> "00:00", 59 -> "00:59", 60 -> "01:00", 125 -> "02:05".
C9_FormatTime ==
    JustWritten =>
        LET t == trace[Len(trace)].time IN
        /\ trace[Len(trace)].kind = "status"
        /\ FormatOK(remaining, t)
        /\ remaining = 0 => t = <<"0", "0", ":", "0", "0">>
        /\ remaining = 59 => t = <<"0", "0", ":", "5", "9">>
        /\ remaining = 60 => t = <<"0", "1", ":", "0", "0">>
        /\ remaining = 125 => t = <<"0", "2", ":", "0", "5">>

C9_Witness ==
    /\ pc = "sleep"
    /\ remaining = 125
    /\ trace[Len(trace)] = Tok("status", label, <<"0", "2", ":", "0", "5">>)

-----------------------------------------------------------------------------
(* C6: validation.                                                         *)

\* Section 6's validation column.
ValidArgs(args) ==
    /\ args.rounds >= 1
    /\ args.round_seconds >= 0
    /\ args.rest_seconds >= 0
    /\ args.warmup_seconds >= 0

\* C6: with rounds < 1 or a negative duration the process exits with a
\* non-zero status before run_timer is entered and nothing (no update, newline
\* or bell) is ever written to standard output; with rounds >= 1 and all
\* durations >= 0 the configuration is accepted and returned with the same
\* field values and bell = not no_bell.
C6_Validation ==
    /\ ~ValidArgs(argv) =>
        /\ trace = <<>>
        /\ pc \in {"main", "exited"}
        /\ gen = NoGen
        /\ pc = "exited" =>
            /\ Len(exit_status) = 1
            /\ exit_status[1] # 0
            /\ stderr # <<>>
    /\ (ValidArgs(argv) /\ pc # "main") =>
        /\ stderr = <<>>
        /\ config.rounds = argv.rounds
        /\ config.round_seconds = argv.round_seconds
        /\ config.rest_seconds = argv.rest_seconds
        /\ config.warmup_seconds = argv.warmup_seconds
        /\ config.bell = ~argv.no_bell
        /\ exit_status \in {<<>>, <<0>>}

C6_Witness ==
    /\ pc = "exited"
    /\ argv.rounds = 1
    /\ argv.round_seconds = 0
    /\ argv.rest_seconds = 0
    /\ argv.warmup_seconds = -1
    /\ exit_status = <<2>>
    /\ trace = <<>>

-----------------------------------------------------------------------------
(* C5, C10: cancellation.                                                  *)

NoticeWritten == \E i \in 1 .. Len(trace) : trace[i].kind = "stopped"

\* C5: once the interrupt has arrived during run_timer's loop (in a sleep,
\* at a write, or between two intervals) no further tick is written, no sleep
\* is taken, no later interval is started and no bell is emitted; the only
\* output after it is the notice "Timer stopped.", printed exactly once, and
\* run_timer returns normally: main goes on to return 0.
C5_Cancellation ==
    /\ [][interrupted =>
            /\ interrupted'
            /\ gen' = gen
            /\ emitted' = emitted
            /\ completed' = completed
            /\ \/ trace' = trace
               \/ /\ ~NoticeWritten
                  /\ Len(trace') = Len(trace) + 3
                  /\ SubSeq(trace', 1, Len(trace)) = trace
                  /\ trace'[Len(trace) + 2] = STOPPED]_vars
    /\ [](interrupted =>
            /\ pc \in {"except", "return", "exited"}
            /\ Count(trace, "stopped") = (IF pc = "except" THEN 0 ELSE 1)
            /\ pc = "exited" => exit_status = <<0>>)
    /\ [](Count(trace, "stopped") > 0 => interrupted)

\* Cancelled during a sleep of the second interval.
C5_Witness ==
    /\ pc = "exited"
    /\ interrupted
    /\ Len(emitted) = 2
    /\ completed = 1
    /\ Len(trace) > 4
    /\ trace[Len(trace) - 3].kind = "status"
    /\ ShownSeconds(trace[Len(trace) - 3].time) > 0
    /\ Count(trace, "stopped") = 1

\* C10: on cancellation, wherever the interrupt fell, the current output line
\* is ended by a newline before the notice, so "Timer stopped." starts a line,
\* is followed by a newline, and nothing is written to standard output after
\* it.
C10_CancelNotice ==
    /\ [](NoticeWritten =>
            LET out == Stdout
                n == Len(out)
            IN  /\ n >= 3
                /\ out[n] = NL
                /\ out[n - 1] = STOPPED
                /\ out[n - 2] = NL
                /\ Count(out, "stopped") = 1)
    /\ [][NoticeWritten => trace' = trace]_vars
    /\ []((interrupted /\ pc \in {"return", "exited"}) => NoticeWritten)

\* Interrupted in mid-line: the line of the last status update is ended first.
C10_Witness ==
    /\ pc = "exited"
    /\ interrupted
    /\ Len(Stdout) >= 4
    /\ Stdout[Len(Stdout) - 3].kind = "status"
    /\ Stdout[Len(Stdout) - 2] = NL
    /\ Stdout[Len(Stdout) - 1] = STOPPED

-----------------------------------------------------------------------------
(* C8: the output of completed intervals.                                  *)

ShowsZero(t) == t.kind = "status" /\ ShownSeconds(t.time) = 0

\* C8: an interval that runs to completion (its _countdown returns) writes
\* its status updates, then exactly one newline after the update showing 0,
\* then the bell iff the bell is enabled; the next interval's first update
\* comes only after that newline and bell; with the bell disabled no bell is
\* ever written, with it enabled there are as many bells as completed
\* intervals.
C8_OutputOrder ==
    LET out == Stdout
        n == Len(out)
    IN  /\ \A i \in 1 .. n :
            /\ out[i].kind = "bell" =>
                /\ config.bell
                /\ i > 2
                /\ out[i - 1] = NL
                /\ ShowsZero(out[i - 2])
            /\ (out[i].kind = "status" /\ i > 1) =>
                \/ /\ out[i - 1].kind = "status"
                   /\ out[i - 1].label = out[i].label
                   /\ ShownSeconds(out[i - 1].time)
                          = ShownSeconds(out[i].time) + 1
                \/ /\ config.bell
                   /\ out[i - 1] = BEL
                \/ /\ ~config.bell
                   /\ i > 2
                   /\ out[i - 1] = NL
                   /\ ShowsZero(out[i - 2])
            /\ (ShowsZero(out[i]) /\ i < n) => out[i + 1] = NL
            /\ (out[i] = NL /\ i < n) => out[i + 1].kind # "nl" \/ interrupted
        /\ Count(out, "bell") = (IF config.bell THEN completed ELSE 0)
        /\ Cardinality({i \in 2 .. n : out[i] = NL /\ ShowsZero(out[i - 1])})
              \in {completed, completed + 1}
        /\ pc = "for" =>
              Cardinality({i \in 2 .. n : out[i] = NL /\ ShowsZero(out[i - 1])})
                  = completed

C8_Witness ==
    /\ pc = "exited"
    /\ ~interrupted
    /\ config.bell
    /\ completed = 6
    /\ Count(trace, "bell") = 6

-----------------------------------------------------------------------------
(* C7: the driver's states.                                                *)

DriverState ==
    IF pc \in {"main", "run_timer"} THEN "NotStarted"
    ELSE IF pc \in TryPcs THEN "Running"
    ELSE IF exit_status = <<2>> THEN "Rejected"
    ELSE IF interrupted THEN "Cancelled"
    ELSE "Completed"

DriverTransitions ==
    {<<"NotStarted", "Running">>, <<"Running", "Completed">>,
     <<"Running", "Cancelled">>}

\* What the terminal shows of each interval started: its label and the time
\* of its first update.
RECURSIVE Rendered(_)
Rendered(out) ==
    IF out = <<>> THEN <<>>
    ELSE LET n == Len(out)
             rest == Rendered(SubSeq(out, 1, n - 1))
         IN  IF out[n].kind = "status"
                    /\ (n = 1 \/ out[n - 1].kind # "status")
             THEN Append(rest, Interval(out[n].label,
                                        ShownSeconds(out[n].time)))
             ELSE rest

\* C7: for a valid configuration the driver goes NotStarted -> Running ->
\* (Completed | Cancelled) and nowhere else; it is Completed exactly when the
\* sequence is exhausted without an interrupt, every interval of the sequence
\* then rendered once and in producer order; an interrupt during Running makes
\* it Cancelled; both terminal states are final, the process always reaches
\* one of them, and main's exit status is 0 in both.
C7_DriverStates ==
    /\ [][ValidArgs(argv) =>
            \/ DriverState' = DriverState
            \/ <<DriverState, DriverState'>> \in DriverTransitions]_vars
    /\ [](DriverState = "Completed" =>
            /\ gen.pc = "done"
            /\ emitted = ExpectedSequence(config)
            /\ Rendered(Stdout) = emitted
            /\ completed = Len(emitted))
    /\ []((ValidArgs(argv) /\ gen.pc = "done" /\ ~interrupted)
            => DriverState = "Completed")
    /\ [](interrupted <=> DriverState = "Cancelled")
    /\ []((ValidArgs(argv) /\ pc = "exited") => exit_status = <<0>>)
    /\ [][DriverState = "Running" /\ interrupted'
            => DriverState' = "Cancelled"]_vars
    /\ (ValidArgs(argv) =>
            <>[](DriverState \in {"Completed", "Cancelled"}
                    /\ exit_status = <<0>>))
    /\ (ValidArgs(argv) => <>(interrupted \/ DriverState = "Completed"))

C7_Witness ==
    /\ pc = "exited"
    /\ DriverState = "Completed"
    /\ exit_status = <<0>>
    /\ config.rounds = 3
    /\ config.warmup_seconds > 0
    /\ config.rest_seconds > 0
    /\ Len(Rendered(Stdout)) = 6

====
